---- MODULE Spec2Model ----
(***************************************************************************)
(* Gridworld MDP and value iteration (src/mdp.py).                          *)
(*                                                                         *)
(* Python floats are modelled as exact rationals <<n, d>> in lowest terms   *)
(* with d > 0, so that equal quantities are equal values and comparisons    *)
(* (delta < epsilon) are decided exactly.                                   *)
(***************************************************************************)
EXTENDS Integers, Sequences, FiniteSets

VARIABLES mdp, gamma, epsilon, utility_step, utility, delta, pc, idx, sweeps, result

vars == <<mdp, gamma, epsilon, utility_step, utility, delta, pc, idx, sweeps, result>>

(***************************************************************************)
(* Bounds of the model.                                                     *)
(***************************************************************************)
\* largest number of grid cells (num_rows * num_cols) of a generated grid
MaxCells == 4
\* largest number of sweeps of the while loop the model follows
MaxSweeps == 5

(***************************************************************************)
(* Exact rational arithmetic standing for Python's float operators.         *)
(***************************************************************************)
Abs(i) == IF i < 0 THEN -i ELSE i

RECURSIVE GCD(_, _)
GCD(a, b) == IF b = 0 THEN a ELSE GCD(b, a % b)

Norm(n, d) ==
    LET g == GCD(Abs(n), Abs(d))
        s == IF d < 0 THEN -1 ELSE 1
    IN  <<(s * n) \div g, (s * d) \div g>>

Rat(n, d) == Norm(n, d)
Zero == <<0, 1>>

LCM(a, b) == (a \div GCD(a, b)) * b

RAdd(p, q) ==
    LET l == LCM(p[2], q[2])
    IN  Norm(p[1] * (l \div p[2]) + q[1] * (l \div q[2]), l)

RNeg(p) == <<-p[1], p[2]>>
RSub(p, q) == RAdd(p, RNeg(q))

RMul(p, q) ==
    LET g1 == GCD(Abs(p[1]), q[2])
        g2 == GCD(Abs(q[1]), p[2])
    IN  IF p[1] = 0 \/ q[1] = 0 THEN Zero
        ELSE Norm((p[1] \div g1) * (q[1] \div g2), (p[2] \div g2) * (q[2] \div g1))

RLess(p, q) ==
    LET l == LCM(p[2], q[2])
    IN  p[1] * (l \div p[2]) < q[1] * (l \div q[2])

RLeq(p, q) == p = q \/ RLess(p, q)
RAbs(p) == <<Abs(p[1]), p[2]>>

\* Python's max() over a non-empty list
RECURSIVE MaxFrom(_, _, _)
MaxFrom(seq, i, best) ==
    IF i > Len(seq) THEN best
    ELSE MaxFrom(seq, i + 1, IF RLess(best, seq[i]) THEN seq[i] ELSE best)

max(seq) == MaxFrom(seq, 2, seq[1])

(***************************************************************************)
(* class MDP                                                                *)
(***************************************************************************)
\* self.states: column-major list of (x, y), x in 1..num_cols, y in 1..num_rows
StateList(num_rows, num_cols) ==
    [k \in 1..(num_rows * num_cols) |->
        <<((k - 1) \div num_rows) + 1, ((k - 1) % num_rows) + 1>>]

MDP(num_rows, num_cols, rewards, terminals, prob_forw, prob_side, reward_default) ==
    [nrows      |-> num_rows,
     ncols      |-> num_cols,
     states     |-> StateList(num_rows, num_cols),
     rewards    |-> rewards,
     terminals  |-> terminals,
     prob_forw  |-> prob_forw,
     prob_side  |-> prob_side,
     reward_def |-> reward_default,
     actions    |-> <<"up", "right", "down", "left">>]

get_states(m) == m.states

get_actions(m, state) == m.actions

\* the mutation of is_terminal that never reports a terminal state
is_terminal_never(m, state) == FALSE

is_terminal(m, state) == state \in m.terminals

get_reward(m, state) ==
    IF state \in DOMAIN m.rewards THEN m.rewards[state] ELSE m.reward_def

Min2(a, b) == IF a < b THEN a ELSE b
Max2(a, b) == IF a > b THEN a ELSE b

\* defaultdict(float): a finite map; a missing key reads as 0.0
DictGet(d, k) == IF k \in DOMAIN d THEN d[k] ELSE Zero
DictSet(d, k, v) == [x \in (DOMAIN d) \cup {k} |-> IF x = k THEN v ELSE d[x]]
DictAdd(d, k, v) == DictSet(d, k, RAdd(DictGet(d, k), v))

\* the mutation of get_transition_prob in which the side outcomes are
\* assigned (=) instead of accumulated (+=)
get_transition_prob_overwrite(m, state, action, successor_state) ==
    IF is_terminal(m, state) THEN Zero
    ELSE
    LET x == state[1]
        y == state[2]
        succ_up    == <<x, Min2(m.nrows, y + 1)>>
        succ_right == <<Min2(m.ncols, x + 1), y>>
        succ_down  == <<x, Max2(1, y - 1)>>
        succ_left  == <<Max2(1, x - 1), y>>
        e == << >>
        succ__prob ==
            CASE action = "up" ->
                   DictSet(DictSet(DictSet(e, succ_up, m.prob_forw),
                           succ_right, m.prob_side), succ_left, m.prob_side)
              [] action = "right" ->
                   DictSet(DictSet(DictSet(e, succ_right, m.prob_forw),
                           succ_up, m.prob_side), succ_down, m.prob_side)
              [] action = "down" ->
                   DictSet(DictSet(DictSet(e, succ_down, m.prob_forw),
                           succ_right, m.prob_side), succ_left, m.prob_side)
              [] action = "left" ->
                   DictSet(DictSet(DictSet(e, succ_left, m.prob_forw),
                           succ_up, m.prob_side), succ_down, m.prob_side)
              [] OTHER -> e
    IN  DictGet(succ__prob, successor_state)

get_transition_prob(m, state, action, successor_state) ==
    IF is_terminal(m, state) THEN Zero
    ELSE
    LET x == state[1]
        y == state[2]
        succ_up    == <<x, Min2(m.nrows, y + 1)>>
        succ_right == <<Min2(m.ncols, x + 1), y>>
        succ_down  == <<x, Max2(1, y - 1)>>
        succ_left  == <<Max2(1, x - 1), y>>
        e == << >>
        succ__prob ==
            CASE action = "up" ->
                   DictAdd(DictAdd(DictSet(e, succ_up, m.prob_forw),
                           succ_right, m.prob_side), succ_left, m.prob_side)
              [] action = "right" ->
                   DictAdd(DictAdd(DictSet(e, succ_right, m.prob_forw),
                           succ_up, m.prob_side), succ_down, m.prob_side)
              [] action = "down" ->
                   DictAdd(DictAdd(DictSet(e, succ_down, m.prob_forw),
                           succ_right, m.prob_side), succ_left, m.prob_side)
              [] action = "left" ->
                   DictAdd(DictAdd(DictSet(e, succ_left, m.prob_forw),
                           succ_up, m.prob_side), succ_down, m.prob_side)
              [] OTHER -> e
    IN  DictGet(succ__prob, successor_state)

\* the inner loop of get_transition_probs: sum over get_states() in list order
RECURSIVE ExpectedFrom(_, _, _, _, _, _)
ExpectedFrom(m, state, a, util, k, sum) ==
    IF k > Len(get_states(m)) THEN sum
    ELSE LET succs == get_states(m)[k]
         IN  ExpectedFrom(m, state, a, util, k + 1,
                 RAdd(sum, RMul(get_transition_prob(m, state, a, succs), util[succs])))

get_transition_probs(m, state, util) ==
    [i \in 1..Len(get_actions(m, state)) |->
        ExpectedFrom(m, state, get_actions(m, state)[i], util, 1, Zero)]

(***************************************************************************)
(* value_iteration(mdp, gamma, epsilon)                                     *)
(***************************************************************************)
\* line 116: {s: 0 for s in mdp.get_states()}
ZeroUtility(m) == [s \in {get_states(m)[k] : k \in 1..Len(get_states(m))} |-> Zero]

\* the state visited by the current iteration of the for loop (line 119)
CurrentState == get_states(mdp)[idx]

\* the mutation of line 120 that reads the dictionary being written
\* (an in-place, Gauss-Seidel update)
NewUtilityStepInPlace ==
    [utility_step EXCEPT ![CurrentState] =
        RAdd(get_reward(mdp, CurrentState),
             RMul(gamma, max(get_transition_probs(mdp, CurrentState, utility_step))))]

\* the mutation of line 120 that leaves out the discount factor
NewUtilityStepNoDiscount ==
    [utility_step EXCEPT ![CurrentState] =
        RAdd(get_reward(mdp, CurrentState),
             max(get_transition_probs(mdp, CurrentState, utility)))]

\* line 120
NewUtilityStep ==
    [utility_step EXCEPT ![CurrentState] =
        RAdd(get_reward(mdp, CurrentState),
             RMul(gamma, max(get_transition_probs(mdp, CurrentState, utility))))]

\* the mutation of lines 121-122 that drops the comparison and keeps the
\* change of the state visited last
NewDeltaLast(step) == RAbs(RSub(step[CurrentState], utility[CurrentState]))

\* lines 121-122, evaluated on the dictionary line 120 has just written
NewDelta(step) ==
    LET change == RAbs(RSub(step[CurrentState], utility[CurrentState]))
    IN  IF RLess(delta, change) THEN change ELSE delta

\* the mutation of line 123 that also stops on delta = epsilon
ConvergedOrEqual(d, eps) == RLeq(d, eps)

\* the mutation of line 123 with the comparison reversed
ConvergedReversed(d, eps) == RLess(eps, d)

\* line 123: if delta < epsilon
Converged(d, eps) == RLess(d, eps)

\* line 125: return utility
Returned == utility

\* `utility` is not bound before line 118 runs, and nothing is returned yet
Unbound == << >>

(***************************************************************************)
(* Inputs.                                                                  *)
(***************************************************************************)
Shapes == {rc \in (1..MaxCells) \X (1..MaxCells) : rc[1] * rc[2] <= MaxCells}
RewardValues == {Rat(10, 1)}
DefaultRewards == {Zero, Rat(-1, 1)}
\* <<prob_forw, prob_side>>: deterministic, noisy, and one not summing to 1
Probs == {<<Rat(1, 1), Zero>>, <<Rat(1, 2), Rat(1, 4)>>, <<Rat(1, 2), Rat(1, 2)>>}
Gammas == {Zero, Rat(1, 2), Rat(1, 1)}
Epsilons == {Rat(-1, 1), Zero, Rat(1, 1)}

\* no override, or one override on the far corner cell
RewardMaps(num_rows, num_cols) ==
    {<< >>} \cup {[s \in {<<num_cols, num_rows>>} |-> v] : v \in RewardValues}

\* no terminal state, or one in the near or the far corner
TerminalSets(num_rows, num_cols) ==
    {{}, {<<1, 1>>}, {<<num_cols, num_rows>>}}

MDPs ==
    UNION {
        {MDP(rc[1], rc[2], rw, tm, pr[1], pr[2], rd) :
            rw \in RewardMaps(rc[1], rc[2]),
            tm \in TerminalSets(rc[1], rc[2]),
            pr \in Probs,
            rd \in DefaultRewards}
        : rc \in Shapes}

\* the 1x2 scenario: terminal (2,1) of reward 10, default 0, deterministic moves
ScenarioMDP ==
    MDP(1, 2, [s \in {<<2, 1>>} |-> Rat(10, 1)], {<<2, 1>>}, Rat(1, 1), Zero, Zero)
ScenarioGamma == Rat(9, 10)
ScenarioEpsilons == {Rat(1, 100), Rat(9, 1), Rat(19, 2), Rat(10, 1), Rat(11, 1)}

(***************************************************************************)
(* The state machine: one call of value_iteration.                          *)
(***************************************************************************)
\* lines 115-116
Init ==
    /\ \/ /\ mdp \in MDPs
          /\ gamma \in Gammas
          /\ epsilon \in Epsilons
       \/ /\ mdp = ScenarioMDP
          /\ gamma = ScenarioGamma
          /\ epsilon \in ScenarioEpsilons
    /\ utility_step = ZeroUtility(mdp)
    /\ utility = Unbound
    /\ delta = Zero
    /\ pc = "while"
    /\ idx = 1
    /\ sweeps = 0
    /\ result = Unbound

\* line 118: utility, delta = utility_step.copy(), 0
Snapshot ==
    /\ pc = "while"
    /\ sweeps < MaxSweeps
    /\ utility' = utility_step
    /\ delta' = Zero
    /\ idx' = 1
    /\ sweeps' = sweeps + 1
    /\ pc' = "for"
    /\ UNCHANGED <<mdp, gamma, epsilon, utility_step, result>>

\* lines 119-122: one iteration of the for loop
ForBody ==
    /\ pc = "for"
    /\ idx <= Len(get_states(mdp))
    /\ LET step == NewUtilityStep
       IN  /\ utility_step' = step
           /\ delta' = NewDelta(step)
    /\ idx' = idx + 1
    /\ pc' = IF idx = Len(get_states(mdp)) THEN "if" ELSE "for"
    /\ UNCHANGED <<mdp, gamma, epsilon, utility, sweeps, result>>

\* lines 123-125: delta < epsilon, break and return utility
Break ==
    /\ pc = "if"
    /\ Converged(delta, epsilon)
    /\ result' = Returned
    /\ pc' = "done"
    /\ UNCHANGED <<mdp, gamma, epsilon, utility_step, utility, delta, idx, sweeps>>

\* line 123 false: back to the top of the while loop
Continue ==
    /\ pc = "if"
    /\ ~Converged(delta, epsilon)
    /\ pc' = "while"
    /\ UNCHANGED <<mdp, gamma, epsilon, utility_step, utility, delta, idx, sweeps, result>>

Next == Snapshot \/ ForBody \/ Break \/ Continue

Spec == Init /\ [][Next]_vars

\* the interpreter always takes the next step of the running call
FairSpec == Init /\ [][Next]_vars /\ WF_vars(Next)

(***************************************************************************)
(* Reference definitions used to state the properties.                      *)
(***************************************************************************)
Grid(m) == (1..m.ncols) \X (1..m.nrows)
Actions == {"up", "right", "down", "left"}

RECURSIVE SetSum(_, _)
SetSum(f, S) ==
    IF S = {} THEN Zero
    ELSE LET x == CHOOSE x \in S : TRUE
         IN  RAdd(f[x], SetSum(f, S \ {x}))

\* the largest element of a non-empty set of rationals
SetMax(S) == CHOOSE v \in S : \A w \in S : RLeq(w, v)

\* wall-clamped neighbour of s in direction d
Neighbor(m, s, d) ==
    CASE d = "up"    -> <<s[1], IF s[2] < m.nrows THEN s[2] + 1 ELSE s[2]>>
      [] d = "down"  -> <<s[1], IF s[2] > 1 THEN s[2] - 1 ELSE s[2]>>
      [] d = "right" -> <<IF s[1] < m.ncols THEN s[1] + 1 ELSE s[1], s[2]>>
      [] d = "left"  -> <<IF s[1] > 1 THEN s[1] - 1 ELSE s[1], s[2]>>

Perpendicular(a) == IF a \in {"up", "down"} THEN {"right", "left"} ELSE {"up", "down"}

Weight(m, a, d) == IF d = a THEN m.prob_forw ELSE m.prob_side

\* the reference kernel: weights of the nominal directions that land on s2
ReferenceKernel(m, s, a, s2) ==
    IF s \in m.terminals THEN Zero
    ELSE LET D == {a} \cup Perpendicular(a)
             w == [d \in D |-> IF Neighbor(m, s, d) = s2 THEN Weight(m, a, d) ELSE Zero]
         IN  SetSum(w, D)

\* R(s) + gamma * max_a sum_{s'} P(s'|s,a) * U[s']
BellmanBackup(m, g, s, U) ==
    LET q == [a \in Actions |->
                 SetSum([s2 \in Grid(m) |-> RMul(get_transition_prob(m, s, a, s2), U[s2])],
                        Grid(m))]
    IN  RAdd(get_reward(m, s), RMul(g, SetMax({q[a] : a \in Actions})))

Positive(r) == RLess(Zero, r)
WellFormed(m) == RAdd(m.prob_forw, RAdd(m.prob_side, m.prob_side)) = Rat(1, 1)
IsScenario == mdp = ScenarioMDP /\ gamma = ScenarioGamma
ScenarioResult == [s \in {<<1, 1>>, <<2, 1>>} |-> IF s = <<1, 1>> THEN Rat(9, 1) ELSE Rat(10, 1)]

(***************************************************************************)
(* Properties.                                                              *)
(***************************************************************************)
\* C1: when value_iteration returns, the mapping it returns is the final U
\* computed by the last sweep (utility_step), not the snapshot taken at the
\* start of that sweep.
C1_ReturnsFinalU == pc = "done" => result = utility_step

\* C2: in the 1x2 scenario with gamma = 0.9 the call returns U[(2,1)] = 10 and
\* U[(1,1)] = 9 for every epsilon > 0.
C2_ScenarioAnyEpsilon ==
    (pc = "done" /\ IsScenario /\ Positive(epsilon)) => result = ScenarioResult

\* C2 (amended): in the 1x2 scenario with gamma = 0.9 the call returns
\* U[(2,1)] = 10 and U[(1,1)] = 9 for every epsilon with 0 < epsilon <= 9.
C2_ScenarioSmallEpsilon ==
    (pc = "done" /\ IsScenario /\ Positive(epsilon) /\ RLeq(epsilon, Rat(9, 1)))
        => result = ScenarioResult

C2_Witness ==
    pc = "done" /\ IsScenario /\ epsilon = Rat(9, 1) /\ result = ScenarioResult

\* C3: in the returned mapping every terminal state's utility equals its
\* reward (override or default).
C3_TerminalUtilityIsReward ==
    pc = "done" => \A s \in mdp.terminals : result[s] = get_reward(mdp, s)

C4_Precondition ==
    /\ WellFormed(mdp)
    /\ RLeq(Zero, gamma) /\ RLess(gamma, Rat(1, 1))
    /\ Positive(epsilon)

\* the guards of Snapshot, ForBody and Break/Continue: Next has a successor
NextEnabled ==
    \/ pc = "while" /\ sweeps < MaxSweeps
    \/ pc = "for" /\ idx <= Len(get_states(mdp))
    \/ pc = "if"

\* C4: for a well-formed configuration, 0 <= gamma < 1 and epsilon > 0 the
\* sweep loop reaches a sweep with delta < epsilon and the function returns.
\* Every step raises (sweeps, idx) in lexicographic order and both are
\* bounded, so no behaviour of FairSpec takes infinitely many steps, and weak
\* fairness of Next lets it stop only where Next is disabled. The call
\* therefore returns in every fair behaviour iff the only states without a
\* successor are those at "done": the loop is never still running when the
\* model stops following it at MaxSweeps.
C4_Terminates == C4_Precondition => (pc = "done" \/ NextEnabled)

C4_Witness == C4_Precondition /\ pc = "done" /\ sweeps >= 3

\* C5: the call returns at the end of the first sweep whose largest change is
\* at most epsilon (equality included): the loop never goes on to another
\* sweep after one whose largest change was <= epsilon. Stated for positive
\* thresholds.
C5_StopsAtChangeAtMostEpsilon ==
    (pc = "while" /\ sweeps >= 1 /\ Positive(epsilon)) => RLess(epsilon, delta)

\* C6: probability conservation: for every non-terminal grid state s and
\* action a, the probabilities of all grid successors sum to
\* prob_forw + 2 * prob_side.
\* Checked for the state the sweep is visiting, which ranges over the grid.
C6_ProbabilityConservation ==
    (pc = "for" /\ ~is_terminal(mdp, CurrentState)) =>
        \A a \in Actions :
            SetSum([s2 \in Grid(mdp) |-> get_transition_prob(mdp, CurrentState, a, s2)],
                   Grid(mdp))
                = RAdd(mdp.prob_forw, RAdd(mdp.prob_side, mdp.prob_side))

\* the sweep visits a non-terminal cell where all three outcomes coincide
C6_Witness ==
    /\ pc = "for"
    /\ mdp.prob_side # Zero
    /\ mdp.nrows = 1 /\ mdp.ncols = 1 /\ mdp.terminals = {}

\* C7: get_transition_prob agrees with the reference kernel for every grid
\* state, action and successor: 0 from a terminal state, otherwise the summed
\* weights of the three nominal directions whose clamped neighbour is s'.
\* Checked for the state the sweep is visiting, which ranges over the grid.
C7_MatchesReferenceKernel ==
    pc = "for" =>
        \A a \in Actions : \A s2 \in Grid(mdp) :
            get_transition_prob(mdp, CurrentState, a, s2)
                = ReferenceKernel(mdp, CurrentState, a, s2)

\* the sweep visits a non-terminal corner of a 2x2 grid with side noise, where
\* the forward and one side outcome coincide
C7_Witness ==
    /\ pc = "for"
    /\ mdp.prob_side # Zero
    /\ mdp.nrows = 2 /\ mdp.ncols = 2
    /\ CurrentState = <<2, 2>> /\ ~is_terminal(mdp, CurrentState)

\* C8: synchronous backup: at the end of every sweep, for every state s,
\* U[s] = R(s) + gamma * max_a sum_{s'} P(s'|s,a) * previous[s'] with previous
\* the snapshot taken at the start of the sweep (no update read a value
\* written earlier in the same sweep).
C8_SynchronousBackup ==
    pc = "if" =>
        \A s \in Grid(mdp) : utility_step[s] = BellmanBackup(mdp, gamma, s, utility)

\* the end of a later sweep over several states that changed some utility
C8_Witness ==
    /\ pc = "if"
    /\ sweeps >= 2
    /\ Len(get_states(mdp)) >= 2
    /\ utility_step # utility
    /\ utility # ZeroUtility(mdp)

C10_ApproximateFixedPoint ==
    pc = "done" =>
        /\ DOMAIN result = Grid(mdp)
        /\ \A s \in Grid(mdp) :
               RLess(RAbs(RSub(BellmanBackup(mdp, gamma, s, result), result[s])), epsilon)

\* a return after several sweeps whose last sweep still changed a utility
C10_Witness ==
    /\ pc = "done"
    /\ sweeps >= 2
    /\ result # utility_step
    /\ Len(get_states(mdp)) >= 2

====
